---------------------------- MODULE Spec2Model ----------------------------
(***************************************************************************)
(* Calibration import of mqt.bench.devices: Provider.get_device and the    *)
(* per-vendor import_backend implementations (IBM, IBM open access in its  *)
(* two implementations, OQC), plus the live-object importers of            *)
(* BaseIBMProvider.                                                        *)
(*                                                                         *)
(* The library keeps no state between calls: every operation reads its     *)
(* input (a calibration document or a backend object) and builds a fresh   *)
(* Device.  The state of the model is therefore the last call: its         *)
(* arguments, the input it read, the calls it made in order, and its       *)
(* outcome (a Device, or a raised exception).                              *)
(*                                                                         *)
(* Numbers.  A JSON number is modelled as a decimal m * 10^e, kept in      *)
(* normal form (no trailing zero in m), so that equality of records is     *)
(* equality of values.  `x * 1e-9` is Scale(x, -9) and `1 - x` is          *)
(* OneMinus(x); binary floating-point rounding is not modelled.            *)
(***************************************************************************)
EXTENDS Integers, Sequences, FiniteSets, TLC

\* ------------------------------------------------------------------ bounds
\* Largest num_qubits of a calibration document.
MaxQubits == 2
\* Longest connectivity list of a calibration document.
MaxEdges == 2

\* ----------------------------------------------------------------- numbers
RECURSIVE Pow10(_)
Pow10(n) == IF n <= 0 THEN 1 ELSE 10 * Pow10(n - 1)

RECURSIVE Norm(_)
Norm(x) ==
    IF x.m = 0 THEN [m |-> 0, e |-> 0]
    ELSE IF x.m % 10 = 0 THEN Norm([m |-> x.m \div 10, e |-> x.e + 1])
    ELSE x

\* The decimal m * 10^e.
Num(m, e) == Norm([m |-> m, e |-> e])

\* x * 10^k  (k = -9 for `* 1e-9`, k = -6 for `* 1e-6`).
Scale(x, k) == Norm([m |-> x.m, e |-> x.e + k])

\* 1 - x
OneMinus(x) ==
    IF x.e >= 0 THEN Num(1 - x.m * Pow10(x.e), 0)
    ELSE Num(Pow10(0 - x.e) - x.m, x.e)

\* The integer literal 1 of `"rz": 1`.
One == Num(1, 0)


\* --------------------------------------------------------------- JSON keys
\* str(q): the decimal digits of a qubit index, as the key of `properties`.
Digit == <<"0", "1", "2", "3", "4", "5", "6", "7", "8", "9">>
RECURSIVE Str(_)
Str(q) == IF q < 10 THEN <<Digit[q + 1]>> ELSE Str(q \div 10) \o <<Digit[(q % 10) + 1]>>

\* f"{qubit1}_{qubit2}" (IBM, IBM open access) and f"{qubit1}-{qubit2}" (OQC).
EdgeKey(q1, q2) == Str(q1) \o <<"_">> \o Str(q2)
OQCEdgeKey(q1, q2) == Str(q1) \o <<"-">> \o Str(q2)

\* --------------------------------------------------- calibration documents
\* The documents the importers are run on.  A document is any JSON file, so
\* the set holds well-formed ones (the example of the calibration format, one
\* whose values differ per field, qubit and edge) and ill-formed ones (values
\* out of range, qubits missing from `properties`, edge keys missing).
Qubits == 0 .. (MaxQubits - 1)
Pairs == {p \in Qubits \X Qubits : p[1] # p[2]}
\* The connectivity lists: up to MaxEdges pairs, repeats included, listed in
\* ascending order (the importers fill dicts, so the order has no effect).
PairIndex(p) == p[1] * MaxQubits + p[2]
ConnLists ==
    {l \in UNION {[1 .. n -> Pairs] : n \in 0 .. MaxEdges} :
        \A i \in 1 .. (Len(l) - 1) : PairIndex(l[i]) <= PairIndex(l[i + 1])}
KeyModes == {"all", "own", "no_err", "no_dur"}
\* The sample documents: values by the keys present.  Missing keys are
\* combined with the values that differ per field, qubit and edge.
DocStyles ==
    {<<"example", "all">>, <<"distinct", "all">>, <<"out_of_range", "all">>}
    \cup {<<"distinct", km>> : km \in KeyModes}

\* The scalar fields of the property block of qubit q.
ScalarField(v, f, q) ==
    CASE v = "example" ->
           [T1 |-> Num(50, 0), T2 |-> Num(70, 0), eRO |-> Num(2, -2), tRO |-> Num(1000, 0),
            eID |-> Num(1, -3), eSX |-> Num(1, -3), eX |-> Num(2, -3),
            fRB |-> Num(999, -3), fRO |-> Num(95, -2)][f]
      [] v = "distinct" ->
           [T1 |-> Num(101 + q, 0), T2 |-> Num(81 + q, 0), eRO |-> Num(31 + q, -3),
            tRO |-> Num(901 + q, 0), eID |-> Num(111 + q, -4), eSX |-> Num(121 + q, -4),
            eX |-> Num(131 + q, -4), fRB |-> Num(9901 + q, -4), fRO |-> Num(911 + q, -3)][f]
      [] OTHER ->
           [T1 |-> Num(-1, 0), T2 |-> Num(70, 0), eRO |-> Num(15, -1), tRO |-> Num(-5, 0),
            eID |-> Num(1, -3), eSX |-> Num(0 - 3, -3), eX |-> Num(2, 0),
            fRB |-> Num(12, -1), fRO |-> Num(-1, -1)][f]

\* The error, duration (ns) and fidelity stored for edge (c, t) in the block
\* of qubit `owner` (IBM), or under two_qubit (OQC, owner = c).
EdgeErr(v, owner, c, t) ==
    CASE v = "example" -> Num(1, -2)
      [] v = "distinct" -> Num(1001 + 100 * owner + 10 * c + t, -5)
      [] OTHER -> Num(2, 0)
EdgeDur(v, owner, c, t) ==
    CASE v = "example" -> Num(300, 0)
      [] v = "distinct" -> Num(401 + 100 * owner + 10 * c + t, 0)
      [] OTHER -> Num(-300, 0)
EdgeFid(v, c, t) ==
    CASE v = "example" -> Num(97, -2)
      [] v = "distinct" -> Num(9001 + 10 * c + t, -4)
      [] OTHER -> Num(0 - 2, -1)

\* The edges keyed in the error / duration dict of the block of qubit q.
EdgeKeys(km, which, q) ==
    CASE km = "all" -> Pairs
      [] km = "own" -> {p \in Pairs : p[1] = q}
      [] km = "no_err" -> IF which = "err" THEN {} ELSE Pairs
      [] OTHER -> IF which = "dur" THEN {} ELSE Pairs

\* The pair an edge key names.
PairOfEdgeKey == [k \in {EdgeKey(p[1], p[2]) : p \in Pairs} |->
                    CHOOSE p \in Pairs : EdgeKey(p[1], p[2]) = k]
PairOfOQCEdgeKey == [k \in {OQCEdgeKey(p[1], p[2]) : p \in Pairs} |->
                       CHOOSE p \in Pairs : OQCEdgeKey(p[1], p[2]) = k]

EdgeDict(v, km, which, q) ==
    [k \in {EdgeKey(p[1], p[2]) : p \in EdgeKeys(km, which, q)} |->
        LET p == PairOfEdgeKey[k]
        IN IF which = "err" THEN EdgeErr(v, q, p[1], p[2]) ELSE EdgeDur(v, q, p[1], p[2])]

\* QubitPropertiesIBM: eCX / tCX.
IBMBlock(v, km, q) ==
    [T1 |-> ScalarField(v, "T1", q), T2 |-> ScalarField(v, "T2", q),
     eRO |-> ScalarField(v, "eRO", q), tRO |-> ScalarField(v, "tRO", q),
     eID |-> ScalarField(v, "eID", q), eSX |-> ScalarField(v, "eSX", q),
     eX |-> ScalarField(v, "eX", q),
     eCX |-> EdgeDict(v, km, "err", q), tCX |-> EdgeDict(v, km, "dur", q)]

\* QubitPropertiesOpenAccess: eECR / tECR.
OpenAccessBlock(v, km, q) ==
    [T1 |-> ScalarField(v, "T1", q), T2 |-> ScalarField(v, "T2", q),
     eRO |-> ScalarField(v, "eRO", q), tRO |-> ScalarField(v, "tRO", q),
     eID |-> ScalarField(v, "eID", q), eSX |-> ScalarField(v, "eSX", q),
     eX |-> ScalarField(v, "eX", q),
     eECR |-> EdgeDict(v, km, "err", q), tECR |-> EdgeDict(v, km, "dur", q)]

\* OQC QubitProperties and TwoQubitProperties.
OQCBlock(v, q) ==
    [T1 |-> ScalarField(v, "T1", q), T2 |-> ScalarField(v, "T2", q),
     fRB |-> ScalarField(v, "fRB", q), fRO |-> ScalarField(v, "fRO", q), qubit |-> q]
OQCTwoQubit(v, km) ==
    [k \in {OQCEdgeKey(p[1], p[2]) : p \in EdgeKeys(km, "err", 0)} |->
        LET p == PairOfOQCEdgeKey[k]
        IN [coupling |-> [control_qubit |-> p[1], target_qubit |-> p[2]],
            fECR |-> EdgeFid(v, p[1], p[2])]]

\* `properties` with the blocks of qubits 0 .. np-1.
PropertyKeys(np) == {Str(q) : q \in 0 .. (np - 1)}
QubitOfKey(k) == (CHOOSE q \in 0 .. MaxQubits : Str(q) = k)

IBMCalibration(nq, np, conn, v, km) ==
    [schema |-> "ibm", name |-> "ibm_washington",
     basis_gates |-> <<"id", "rz", "sx", "x", "cx", "measure", "barrier">>,
     num_qubits |-> nq, connectivity |-> conn,
     properties |-> [k \in PropertyKeys(np) |-> IBMBlock(v, km, QubitOfKey(k))]]

IBMOpenAccessCalibration(nq, np, conn, v, km) ==
    [schema |-> "ibm_open_access", name |-> "ibm_kyiv",
     basis_gates |-> <<"id", "rz", "sx", "x", "ecr", "measure", "barrier">>,
     num_qubits |-> nq, connectivity |-> conn,
     properties |-> [k \in PropertyKeys(np) |-> OpenAccessBlock(v, km, QubitOfKey(k))]]

OQCCalibration(nq, np, conn, v, km) ==
    [schema |-> "oqc", name |-> "oqc_lucy",
     basis_gates |-> <<"rz", "sx", "x", "ecr", "measure", "barrier">>,
     num_qubits |-> nq, connectivity |-> conn,
     properties |-> [one_qubit |-> [k \in PropertyKeys(np) |-> OQCBlock(v, QubitOfKey(k))],
                     two_qubit |-> OQCTwoQubit(v, km)]]

\* The document of the format of provider class cls.
CalibrationOf(cls, nq, np, conn, v, km) ==
    CASE cls = "IBMProvider" -> IBMCalibration(nq, np, conn, v, km)
      [] cls = "OQCProvider" -> OQCCalibration(nq, np, conn, v, km)
      [] OTHER -> IBMOpenAccessCalibration(nq, np, conn, v, km)
NoDoc == [schema |-> "none"]


\* ------------------------------------------------------------- data model
\* range(n)
Range(n) == 0 .. (n - 1)
\* The pairs a coupling_map list holds.
Edges(coupling_map) == {coupling_map[i] : i \in DOMAIN coupling_map}

\* DeviceCalibration(): every table an empty dict.
DeviceCalibration ==
    [t1 |-> <<>>, t2 |-> <<>>, readout_fidelity |-> <<>>, readout_duration |-> <<>>,
     single_qubit_gate_fidelity |-> <<>>, single_qubit_gate_duration |-> <<>>,
     two_qubit_gate_fidelity |-> <<>>, two_qubit_gate_duration |-> <<>>]

\* A populated Device; `sanitized` records that sanitize_device() ran on it.
Device(name, num_qubits, basis_gates, coupling_map, calibration) ==
    [kind |-> "Device", name |-> name, num_qubits |-> num_qubits,
     basis_gates |-> basis_gates, coupling_map |-> coupling_map,
     calibration |-> calibration, sanitized |-> FALSE]
NoDevice == [kind |-> "None"]

\* The outcome of a call: the value returned, or the exception raised.
Return(d) == [raised |-> "none", device |-> d]
Raise(exc) == [raised |-> exc, device |-> NoDevice]

\* An argument of import_backend: a str (as get_device passes it) or a Path
\* to a file holding `doc`.
StrArg(name) == [type |-> "str", name |-> name, doc |-> NoDoc]
PathArg(doc) == [type |-> "Path", name |-> "", doc |-> doc]

\* --------------------------------------------- IBMProvider (ibm.py)
\* The subscripts of the qubit loop and of the edge loop that raise KeyError.
IBMProvider_KeyError(cal) ==
    \/ \E qubit \in Range(cal.num_qubits) : Str(qubit) \notin DOMAIN cal.properties
    \/ \E p \in Edges(cal.connectivity) :
          \/ Str(p[1]) \notin DOMAIN cal.properties
          \/ /\ Str(p[1]) \in DOMAIN cal.properties
             /\ \/ EdgeKey(p[1], p[2]) \notin DOMAIN cal.properties[Str(p[1])].eCX
                \/ EdgeKey(p[1], p[2]) \notin DOMAIN cal.properties[Str(p[1])].tCX

IBMProvider_single_qubit_gate_fidelity(cal, qubit) ==
    [id |-> OneMinus(cal.properties[Str(qubit)].eID),
     rz |-> One,
     sx |-> OneMinus(cal.properties[Str(qubit)].eSX),
     x |-> OneMinus(cal.properties[Str(qubit)].eX)]

\* Mutant: the error is read from the block of the target qubit.
IBMProvider_cx_error_of_target(cal, qubit1, qubit2) ==
    IF /\ Str(qubit2) \in DOMAIN cal.properties
       /\ EdgeKey(qubit1, qubit2) \in DOMAIN cal.properties[Str(qubit2)].eCX
    THEN cal.properties[Str(qubit2)].eCX[EdgeKey(qubit1, qubit2)]
    ELSE cal.properties[Str(qubit1)].eCX[EdgeKey(qubit1, qubit2)]

IBMProvider_cx_error(cal, qubit1, qubit2) ==
    cal.properties[Str(qubit1)].eCX[EdgeKey(qubit1, qubit2)]
IBMProvider_cx_duration(cal, qubit1, qubit2) ==
    Scale(cal.properties[Str(qubit1)].tCX[EdgeKey(qubit1, qubit2)], -9)

\* Mutant: the qubit loop runs over the keys of `properties`.
IBMProvider_t1_over_properties(cal) ==
    [qubit \in {QubitOfKey(k) : k \in DOMAIN cal.properties} |->
        Scale(cal.properties[Str(qubit)].T1, -6)]

\* calibration.t1, filled by the loop over range(device.num_qubits).
IBMProvider_t1(cal) ==
    [qubit \in Range(cal.num_qubits) |-> Scale(cal.properties[Str(qubit)].T1, -6)]

\* Mutant: the duration is stored under (qubit2, qubit1).
IBMProvider_two_qubit_gate_duration_reversed(cal) ==
    [p \in {<<e[2], e[1]>> : e \in Edges(cal.connectivity)} |->
        [cx |-> IBMProvider_cx_duration(cal, p[2], p[1])]]

\* calibration.two_qubit_gate_duration, filled by the loop over device.coupling_map.
IBMProvider_two_qubit_gate_duration(cal) ==
    [p \in Edges(cal.connectivity) |-> [cx |-> IBMProvider_cx_duration(cal, p[1], p[2])]]

IBMProvider_calibration(cal) ==
    [t1 |-> IBMProvider_t1(cal),
     t2 |-> [qubit \in Range(cal.num_qubits) |-> Scale(cal.properties[Str(qubit)].T2, -6)],
     readout_fidelity |->
        [qubit \in Range(cal.num_qubits) |-> OneMinus(cal.properties[Str(qubit)].eRO)],
     readout_duration |->
        [qubit \in Range(cal.num_qubits) |-> Scale(cal.properties[Str(qubit)].tRO, -9)],
     single_qubit_gate_fidelity |->
        [qubit \in Range(cal.num_qubits) |-> IBMProvider_single_qubit_gate_fidelity(cal, qubit)],
     single_qubit_gate_duration |-> DeviceCalibration.single_qubit_gate_duration,
     two_qubit_gate_fidelity |->
        [p \in Edges(cal.connectivity) |->
            [cx |-> OneMinus(IBMProvider_cx_error(cal, p[1], p[2]))]],
     two_qubit_gate_duration |-> IBMProvider_two_qubit_gate_duration(cal)]

\* IBMProvider.import_backend(path): `path.open()` needs a Path.
IBMProvider_import_backend(path) ==
    IF path.type # "Path" THEN Raise("AttributeError")
    ELSE IF IBMProvider_KeyError(path.doc) THEN Raise("KeyError")
    ELSE Return(Device(path.doc.name, path.doc.num_qubits, path.doc.basis_gates,
                       path.doc.connectivity, IBMProvider_calibration(path.doc)))

\* ------------------------------- IBMOpenAccessProvider of ibm.py
IBMOpenAccess_KeyError(cal) ==
    \/ \E qubit \in Range(cal.num_qubits) : Str(qubit) \notin DOMAIN cal.properties
    \/ \E p \in Edges(cal.connectivity) :
          \/ Str(p[1]) \notin DOMAIN cal.properties
          \/ /\ Str(p[1]) \in DOMAIN cal.properties
             /\ \/ EdgeKey(p[1], p[2]) \notin DOMAIN cal.properties[Str(p[1])].eECR
                \/ EdgeKey(p[1], p[2]) \notin DOMAIN cal.properties[Str(p[1])].tECR

IBMOpenAccess_single_qubit_gate_fidelity(cal, qubit) ==
    [id |-> OneMinus(cal.properties[Str(qubit)].eID),
     rz |-> One,
     sx |-> OneMinus(cal.properties[Str(qubit)].eSX),
     x |-> OneMinus(cal.properties[Str(qubit)].eX)]

IBMOpenAccess_ecr_duration(cal, qubit1, qubit2) ==
    Scale(cal.properties[Str(qubit1)].tECR[EdgeKey(qubit1, qubit2)], -9)

IBMOpenAccess_calibration(cal) ==
    [t1 |-> [qubit \in Range(cal.num_qubits) |-> Scale(cal.properties[Str(qubit)].T1, -6)],
     t2 |-> [qubit \in Range(cal.num_qubits) |-> Scale(cal.properties[Str(qubit)].T2, -6)],
     readout_fidelity |->
        [qubit \in Range(cal.num_qubits) |-> OneMinus(cal.properties[Str(qubit)].eRO)],
     readout_duration |->
        [qubit \in Range(cal.num_qubits) |-> Scale(cal.properties[Str(qubit)].tRO, -9)],
     single_qubit_gate_fidelity |->
        [qubit \in Range(cal.num_qubits) |->
            IBMOpenAccess_single_qubit_gate_fidelity(cal, qubit)],
     single_qubit_gate_duration |-> DeviceCalibration.single_qubit_gate_duration,
     two_qubit_gate_fidelity |->
        [p \in Edges(cal.connectivity) |->
            [ecr |-> OneMinus(cal.properties[Str(p[1])].eECR[EdgeKey(p[1], p[2])])]],
     two_qubit_gate_duration |->
        [p \in Edges(cal.connectivity) |->
            [ecr |-> IBMOpenAccess_ecr_duration(cal, p[1], p[2])]]]

IBMOpenAccess_import_backend(path) ==
    IF path.type # "Path" THEN Raise("AttributeError")
    ELSE IF IBMOpenAccess_KeyError(path.doc) THEN Raise("KeyError")
    ELSE Return(Device(path.doc.name, path.doc.num_qubits, path.doc.basis_gates,
                       path.doc.connectivity, IBMOpenAccess_calibration(path.doc)))

\* ------------------- IBMOpenAccessProvider of ibm_open_access.py
\* Only eECR is subscripted in the edge loop: tECR is never read.
OpenAccessModule_KeyError(cal) ==
    \/ \E qubit \in Range(cal.num_qubits) : Str(qubit) \notin DOMAIN cal.properties
    \/ \E p \in Edges(cal.connectivity) :
          \/ Str(p[1]) \notin DOMAIN cal.properties
          \/ /\ Str(p[1]) \in DOMAIN cal.properties
             /\ EdgeKey(p[1], p[2]) \notin DOMAIN cal.properties[Str(p[1])].eECR

\* Mutant: rz is given a measured fidelity like the other gates.
OpenAccessModule_single_qubit_gate_fidelity_rz_measured(cal, qubit) ==
    [id |-> OneMinus(cal.properties[Str(qubit)].eID),
     rz |-> OneMinus(cal.properties[Str(qubit)].eSX),
     sx |-> OneMinus(cal.properties[Str(qubit)].eSX),
     x |-> OneMinus(cal.properties[Str(qubit)].eX)]

OpenAccessModule_single_qubit_gate_fidelity(cal, qubit) ==
    [id |-> OneMinus(cal.properties[Str(qubit)].eID),
     rz |-> One,
     sx |-> OneMinus(cal.properties[Str(qubit)].eSX),
     x |-> OneMinus(cal.properties[Str(qubit)].eX)]

\* duration = ...["eECR"][edge] * 1e-9
OpenAccessModule_ecr_duration(cal, qubit1, qubit2) ==
    Scale(cal.properties[Str(qubit1)].eECR[EdgeKey(qubit1, qubit2)], -9)

OpenAccessModule_calibration(cal) ==
    [t1 |-> [qubit \in Range(cal.num_qubits) |-> Scale(cal.properties[Str(qubit)].T1, -6)],
     t2 |-> [qubit \in Range(cal.num_qubits) |-> Scale(cal.properties[Str(qubit)].T2, -6)],
     readout_fidelity |->
        [qubit \in Range(cal.num_qubits) |-> OneMinus(cal.properties[Str(qubit)].eRO)],
     readout_duration |->
        [qubit \in Range(cal.num_qubits) |-> Scale(cal.properties[Str(qubit)].tRO, -9)],
     single_qubit_gate_fidelity |->
        [qubit \in Range(cal.num_qubits) |->
            OpenAccessModule_single_qubit_gate_fidelity(cal, qubit)],
     single_qubit_gate_duration |-> DeviceCalibration.single_qubit_gate_duration,
     two_qubit_gate_fidelity |->
        [p \in Edges(cal.connectivity) |->
            [ecr |-> OneMinus(cal.properties[Str(p[1])].eECR[EdgeKey(p[1], p[2])])]],
     two_qubit_gate_duration |->
        [p \in Edges(cal.connectivity) |->
            [ecr |-> OpenAccessModule_ecr_duration(cal, p[1], p[2])]]]

OpenAccessModule_import_backend(path) ==
    IF path.type # "Path" THEN Raise("AttributeError")
    ELSE IF OpenAccessModule_KeyError(path.doc) THEN Raise("KeyError")
    ELSE Return(Device(path.doc.name, path.doc.num_qubits, path.doc.basis_gates,
                       path.doc.connectivity, OpenAccessModule_calibration(path.doc)))

\* --------------------------------------------------- OQCProvider (oqc.py)
OQCProvider_KeyError(cal) ==
    \/ \E qubit \in Range(cal.num_qubits) : Str(qubit) \notin DOMAIN cal.properties.one_qubit
    \/ \E p \in Edges(cal.connectivity) :
          OQCEdgeKey(p[1], p[2]) \notin DOMAIN cal.properties.two_qubit

OQCProvider_single_qubit_gate_fidelity(cal, qubit) ==
    [gate \in {"rz", "sx", "x"} |-> cal.properties.one_qubit[Str(qubit)].fRB]

\* Mutant: fRO is inverted as the IBM importers invert eRO.
OQCProvider_readout_fidelity_inverted(cal, qubit) ==
    OneMinus(cal.properties.one_qubit[Str(qubit)].fRO)

OQCProvider_readout_fidelity(cal, qubit) == cal.properties.one_qubit[Str(qubit)].fRO

\* Mutant: a missing duration is filled with zero for every edge.
OQCProvider_two_qubit_gate_duration_zero_filled(cal) ==
    [p \in Edges(cal.connectivity) |-> [ecr |-> Num(0, 0)]]

\* The importer assigns no two-qubit duration: the table stays as constructed.
OQCProvider_two_qubit_gate_duration(cal) == DeviceCalibration.two_qubit_gate_duration

OQCProvider_calibration(cal) ==
    [t1 |-> [qubit \in Range(cal.num_qubits) |->
                Scale(cal.properties.one_qubit[Str(qubit)].T1, -6)],
     t2 |-> [qubit \in Range(cal.num_qubits) |->
                Scale(cal.properties.one_qubit[Str(qubit)].T2, -6)],
     readout_fidelity |->
        [qubit \in Range(cal.num_qubits) |-> OQCProvider_readout_fidelity(cal, qubit)],
     readout_duration |-> DeviceCalibration.readout_duration,
     single_qubit_gate_fidelity |->
        [qubit \in Range(cal.num_qubits) |-> OQCProvider_single_qubit_gate_fidelity(cal, qubit)],
     single_qubit_gate_duration |-> DeviceCalibration.single_qubit_gate_duration,
     two_qubit_gate_fidelity |->
        [p \in Edges(cal.connectivity) |->
            [ecr |-> cal.properties.two_qubit[OQCEdgeKey(p[1], p[2])].fECR]],
     two_qubit_gate_duration |-> OQCProvider_two_qubit_gate_duration(cal)]

\* OQCProvider.import_backend(name): the calibration file of `name` is looked
\* up among the package resources; `files` maps the names that have one.
OQCProvider_import_backend(name, files) ==
    IF name.type # "str" \/ name.name \notin DOMAIN files THEN Raise("FileNotFoundError")
    ELSE IF OQCProvider_KeyError(files[name.name]) THEN Raise("KeyError")
    ELSE LET cal == files[name.name]
         IN Return(Device(cal.name, cal.num_qubits, cal.basis_gates, cal.connectivity,
                          OQCProvider_calibration(cal)))


\* --------------------------------- live objects (Qiskit Target, BackendV2)
\* Largest number of qubits of a Target, and most instructions it declares.
MaxTargetQubits == 3
MaxInstructions == 2

\* The operations a Target declares, with the number of qubits each acts on.
Arity ==
    [measure |-> 1, sx |-> 1, reset |-> 1, delay |-> 1, cx |-> 2, ccx |-> 3]
NameIndex ==
    [measure |-> 1, sx |-> 2, reset |-> 3, delay |-> 4, cx |-> 5, ccx |-> 6]

\* The (instruction, qargs) pairs a Target on n qubits can declare; a
\* three-qubit operation is listed once per qubit triple.
QargsOn(n, k) ==
    CASE k = 1 -> {<<a>> : a \in Range(n)}
      [] k = 2 -> {p \in Range(n) \X Range(n) : p[1] # p[2]}
      [] OTHER -> {t \in Range(n) \X Range(n) \X Range(n) : t[1] < t[2] /\ t[2] < t[3]}
InstructionsOn(n) ==
    UNION {{[name |-> nm, qargs |-> qa] : qa \in QargsOn(n, Arity[nm])} : nm \in DOMAIN Arity}

\* target[instruction.name][qargs]: the error and the duration (s) declared.
InstructionProperties(name, qargs) ==
    [error |-> Num(NameIndex[name] * 10 + qargs[1] + 1, -3),
     duration |-> Num(NameIndex[name] * 100 + qargs[Len(qargs)] + 1, -9)]

\* target.qubit_properties[qubit]
QubitProperties(qubit) == [t1 |-> Num(101 + qubit, -6), t2 |-> Num(81 + qubit, -6)]

\* A Target as Qiskit builds it: target.num_qubits covers every qarg, and
\* qubit_properties (np entries) is no longer than num_qubits.  `listed` is
\* target.instructions; each (instruction, qargs) is listed once.
Target(n, np, listed) ==
    [num_qubits |-> n,
     qubit_properties |-> [i \in 1 .. np |-> QubitProperties(i - 1)],
     instructions |-> {listed[i] : i \in DOMAIN listed}]
InstructionIndex(i) ==
    LET q(j) == IF j <= Len(i.qargs) THEN i.qargs[j] + 1 ELSE 0
    IN NameIndex[i.name] * 1000 + q(1) * 100 + q(2) * 10 + q(3)
Listings(n, k) ==
    {s \in [1 .. k -> InstructionsOn(n)] :
        \A i \in 1 .. (k - 1) : InstructionIndex(s[i]) < InstructionIndex(s[i + 1])}
NoBackend == [num_qubits |-> -1]

\* target.build_coupling_map().get_edges(): the qargs of the two-qubit
\* instructions, in some order.
CouplingEdges(target) == {i.qargs : i \in {j \in target.instructions : Len(j.qargs) = 2}}
RECURSIVE ListOf(_)
ListOf(S) == IF S = {} THEN <<>> ELSE LET x == CHOOSE x \in S : TRUE IN <<x>> \o ListOf(S \ {x})

\* ------------------------------------- BaseIBMProvider.import_target
\* The instructions the loop does not `continue` past.
import_target_read(target) == {i \in target.instructions : i.name \notin {"reset", "delay"}}

\* The subscripts of the loop that raise KeyError: a one-qubit gate on a qubit
\* without qubit_properties, a two-qubit gate off the coupling map.
import_target_KeyError(target) ==
    \E i \in import_target_read(target) :
        /\ i.name # "measure"
        /\ \/ Len(i.qargs) = 1 /\ i.qargs[1] \notin Range(Len(target.qubit_properties))
           \/ Len(i.qargs) = 2 /\ i.qargs \notin CouplingEdges(target)

import_target_calibration(target) ==
    LET num_qubits == Len(target.qubit_properties)
        read == import_target_read(target)
        measures == {i \in read : i.name = "measure"}
        single(qubit) == {i \in read : i.name # "measure" /\ i.qargs = <<qubit>>}
        double(p) == {i \in read : i.name # "measure" /\ i.qargs = p}
    IN [t1 |-> [qubit \in Range(num_qubits) |-> target.qubit_properties[qubit + 1].t1],
        t2 |-> [qubit \in Range(num_qubits) |-> target.qubit_properties[qubit + 1].t2],
        readout_fidelity |->
           [qubit \in {i.qargs[1] : i \in measures} |->
               OneMinus(InstructionProperties("measure", <<qubit>>).error)],
        readout_duration |->
           [qubit \in {i.qargs[1] : i \in measures} |->
               InstructionProperties("measure", <<qubit>>).duration],
        single_qubit_gate_fidelity |->
           [qubit \in Range(num_qubits) |->
               [nm \in {i.name : i \in single(qubit)} |->
                   OneMinus(InstructionProperties(nm, <<qubit>>).error)]],
        single_qubit_gate_duration |->
           [qubit \in Range(num_qubits) |->
               [nm \in {i.name : i \in single(qubit)} |->
                   InstructionProperties(nm, <<qubit>>).duration]],
        two_qubit_gate_fidelity |->
           [p \in CouplingEdges(target) |->
               [nm \in {i.name : i \in double(p)} |-> OneMinus(InstructionProperties(nm, p).error)]],
        two_qubit_gate_duration |->
           [p \in CouplingEdges(target) |->
               [nm \in {i.name : i \in double(p)} |-> InstructionProperties(nm, p).duration]]]

\* The (name, qargs) for which target[instruction.name][qargs] is read: the
\* instructions not skipped, in the order target.instructions lists them, up
\* to the one whose table subscript raises.
import_target_accessed(target) ==
    LET failing ==
            {i \in import_target_read(target) :
                /\ i.name # "measure"
                /\ \/ Len(i.qargs) = 1 /\ i.qargs[1] \notin Range(Len(target.qubit_properties))
                   \/ Len(i.qargs) = 2 /\ i.qargs \notin CouplingEdges(target)}
    IN {<<i.name, i.qargs>> :
            i \in {j \in import_target_read(target) :
                      \A f \in failing :
                          InstructionIndex(j) <= InstructionIndex(f)}}

\* ------------------------- BaseIBMProvider.import_backend_properties
\* A BackendProperties object: `qubits` holds an entry per qubit, `gates` an
\* entry per (gate, qubits) in the order listed.  Its accessors t1, t2,
\* readout_error, readout_length, gate_error and gate_length answer for every
\* qubit and every gate it lists.
BackendProperties(np, listed) ==
    [qubits |-> [i \in 1 .. np |-> QubitProperties(i - 1)],
     gates |-> [i \in DOMAIN listed |-> [gate |-> listed[i].name, qubits |-> listed[i].qargs]]]

\* The positions of `gates` the loop does not `continue` past.
import_backend_properties_read(backend_properties) ==
    {i \in DOMAIN backend_properties.gates : backend_properties.gates[i].gate # "reset"}

\* The positions whose table subscript raises KeyError: a one-qubit gate on a
\* qubit outside range(len(backend_properties.qubits)).
import_backend_properties_failing(backend_properties) ==
    {i \in import_backend_properties_read(backend_properties) :
        /\ Len(backend_properties.gates[i].qubits) = 1
        /\ backend_properties.gates[i].qubits[1]
              \notin Range(Len(backend_properties.qubits))}

\* The (gate, qubits) for which gate_error and gate_length are called.
import_backend_properties_accessed(backend_properties) ==
    {<<backend_properties.gates[i].gate, backend_properties.gates[i].qubits>> :
        i \in {j \in import_backend_properties_read(backend_properties) :
                  \A f \in import_backend_properties_failing(backend_properties) : j <= f}}

import_backend_properties_calibration(backend_properties) ==
    LET num_qubits == Len(backend_properties.qubits)
        read == {backend_properties.gates[i] :
                    i \in import_backend_properties_read(backend_properties)}
        single(qubit) == {g \in read : g.qubits = <<qubit>>}
        double(p) == {g \in read : g.qubits = p}
        pairs == {g.qubits : g \in {h \in read : Len(h.qubits) = 2}}
    IN [t1 |-> [qubit \in Range(num_qubits) |-> backend_properties.qubits[qubit + 1].t1],
        t2 |-> [qubit \in Range(num_qubits) |-> backend_properties.qubits[qubit + 1].t2],
        readout_fidelity |->
           [qubit \in Range(num_qubits) |->
               OneMinus(InstructionProperties("measure", <<qubit>>).error)],
        readout_duration |->
           [qubit \in Range(num_qubits) |->
               InstructionProperties("measure", <<qubit>>).duration],
        single_qubit_gate_fidelity |->
           [qubit \in Range(num_qubits) |->
               [nm \in {g.gate : g \in single(qubit)} |->
                   OneMinus(InstructionProperties(nm, <<qubit>>).error)]],
        single_qubit_gate_duration |->
           [qubit \in Range(num_qubits) |->
               [nm \in {g.gate : g \in single(qubit)} |->
                   InstructionProperties(nm, <<qubit>>).duration]],
        two_qubit_gate_fidelity |->
           [p \in pairs |->
               [nm \in {g.gate : g \in double(p)} |-> OneMinus(InstructionProperties(nm, p).error)]],
        two_qubit_gate_duration |->
           [p \in pairs |->
               [nm \in {g.gate : g \in double(p)} |-> InstructionProperties(nm, p).duration]]]

\* import_backend_properties(backend_properties): returns the DeviceCalibration.
import_backend_properties(backend_properties) ==
    IF import_backend_properties_failing(backend_properties) # {} THEN Raise("KeyError")
    ELSE Return([kind |-> "DeviceCalibration",
                 calibration |-> import_backend_properties_calibration(backend_properties)])

\* IBMProvider.import_qiskit_backend(backend), for a backend whose target is
\* `target`: backend.num_qubits and backend.coupling_map are the target's.
import_qiskit_backend(target) ==
    IF import_target_KeyError(target) THEN Raise("KeyError")
    ELSE Return(Device("backend", target.num_qubits,
                       ListOf({i.name : i \in target.instructions}),
                       ListOf(CouplingEdges(target)), import_target_calibration(target)))

\* ------------------------------------------------ Provider (provider.py)
Providers == {"IBMProvider", "IBMOpenAccessProvider_ibm", "IBMOpenAccessProvider", "OQCProvider"}

\* x in a list
InList(x, list) == \E i \in DOMAIN list : list[i] = x

get_available_device_names(cls) ==
    CASE cls = "IBMProvider" -> <<"ibm_washington", "ibm_montreal">>
      [] cls = "OQCProvider" -> <<"oqc_lucy">>
      [] OTHER -> <<"ibm_kyiv", "ibm_brisbane", "ibm_sherbrooke">>

\* cls.import_backend(arg)
import_backend(cls, arg, files) ==
    CASE cls = "IBMProvider" -> IBMProvider_import_backend(arg)
      [] cls = "IBMOpenAccessProvider_ibm" -> IBMOpenAccess_import_backend(arg)
      [] cls = "IBMOpenAccessProvider" -> OpenAccessModule_import_backend(arg)
      [] OTHER -> OQCProvider_import_backend(arg, files)

\* Device.sanitize_device(): rewrites the calibration in place; what it
\* rewrites is owned by Device, so only the fact that it ran is kept.
sanitize_device(device) == [device EXCEPT !.sanitized = TRUE]

\* Mutant: the backend is imported before the name is checked.
get_device_import_first(cls, name, sanitize, files) ==
    LET imported == import_backend(cls, StrArg(name), files)
    IN IF imported.raised # "none"
       THEN [outcome |-> imported, trace |-> <<"import_backend", "raise">>]
       ELSE IF ~InList(name, get_available_device_names(cls))
       THEN [outcome |-> Raise("ValueError"),
             trace |-> <<"import_backend", "get_available_device_names", "raise">>]
       ELSE [outcome |-> imported,
             trace |-> <<"import_backend", "get_available_device_names", "return">>]

\* Provider.get_device(name, sanitize_device), with the calls it makes in order.
get_device(cls, name, sanitize, files) ==
    IF ~InList(name, get_available_device_names(cls))
    THEN [outcome |-> Raise("ValueError"),
          trace |-> <<"get_available_device_names", "raise">>]
    ELSE LET imported == import_backend(cls, StrArg(name), files)
         IN IF imported.raised # "none"
            THEN [outcome |-> imported,
                  trace |-> <<"get_available_device_names", "import_backend", "raise">>]
            ELSE IF sanitize
            THEN [outcome |-> Return(sanitize_device(imported.device)),
                  trace |-> <<"get_available_device_names", "import_backend",
                              "sanitize_device", "return">>]
            ELSE [outcome |-> imported,
                  trace |-> <<"get_available_device_names", "import_backend", "return">>]

\* Provider.get_available_devices(sanitize_device): get_device for every name
\* of get_available_device_names(), in order, from the i-th name on; an
\* exception of get_device ends the comprehension.
RECURSIVE get_available_devices_from(_, _, _, _)
get_available_devices_from(cls, i, sanitize, files) ==
    IF i > Len(get_available_device_names(cls))
    THEN [raised |-> "none", devices |-> <<>>]
    ELSE LET r == get_device(cls, get_available_device_names(cls)[i], sanitize, files).outcome
         IN IF r.raised # "none"
            THEN [raised |-> r.raised, devices |-> <<>>]
            ELSE LET rest == get_available_devices_from(cls, i + 1, sanitize, files)
                 IN IF rest.raised # "none" THEN rest
                    ELSE [raised |-> "none", devices |-> <<r.device>> \o rest.devices]
get_available_devices(cls, sanitize, files) ==
    get_available_devices_from(cls, 1, sanitize, files)

\* Provider.get_available_basis_gates(): the set of tuple(device.basis_gates)
\* over get_available_devices(), each turned back into a list, in the order
\* the set iterates.
get_available_basis_gates(cls, files) ==
    LET available == get_available_devices(cls, FALSE, files)
    IN IF available.raised # "none"
       THEN [raised |-> available.raised, value |-> <<>>]
       ELSE LET unique_basis_gates ==
                    {available.devices[i].basis_gates : i \in DOMAIN available.devices}
            IN [raised |-> "none", value |-> ListOf(unique_basis_gates)]

\* ----------------------------------------------------------------- inputs
\* The names callers ask for: every provider's devices and an unknown one.
DeviceNames ==
    {"ibm_washington", "ibm_montreal", "ibm_kyiv", "ibm_brisbane", "ibm_sherbrooke",
     "oqc_lucy", "nonexistent_device"}

\* ------------------------------------------------------------------ state
VARIABLES
    pc,       \* "idle": no call in progress; "done": a call has ended
    call,     \* the call: op, cls, name, sanitize_device
    doc,      \* the calibration document the call read, NoDoc if none
    backend,  \* the live object the call read, NoBackend if none
    trace,    \* the calls made by get_device, in order
    raised,   \* the exception the call ended with, "none" if it returned
    returned, \* the Device, DeviceCalibration or list returned, NoDevice if none
    accessed  \* the (name, qubits) whose error and duration a live import read

vars == <<pc, call, doc, backend, trace, raised, returned, accessed>>

NoCall == [op |-> "none", cls |-> "none", name |-> "", sanitize_device |-> FALSE]

Init ==
    /\ pc = "idle"
    /\ call = NoCall
    /\ doc = NoDoc
    /\ trace = <<>>
    /\ raised = "none"
    /\ returned = NoDevice
    /\ backend = NoBackend
    /\ accessed = {}

\* The document import_backend read, if it got as far as opening one.
DocRead(cls, arg, files) ==
    IF cls = "OQCProvider"
    THEN IF arg.type = "str" /\ arg.name \in DOMAIN files THEN files[arg.name] ELSE NoDoc
    ELSE IF arg.type = "Path" THEN arg.doc ELSE NoDoc

\* The package's calibration_files as import_backend(name) resolves them:
\* one file per device name of the provider (only OQCProvider looks one up).
ResourceFiles(cls, cal) ==
    [n \in {get_available_device_names(cls)[i] : i \in DOMAIN get_available_device_names(cls)}
        |-> cal]

\* What the resource files hold matters where import_backend(name) reads
\* them; for the other classes one document stands for all.
ResourceChoices(cls) ==
    IF cls = "OQCProvider"
    THEN (1 .. MaxQubits) \X (0 .. MaxQubits) \X ConnLists \X DocStyles
    ELSE {<<1, 1, <<>>, <<"example", "all">>>>}

\* A caller runs cls.get_device(name, sanitize_device).
GetDevice ==
    /\ pc = "idle"
    /\ \E cls \in Providers, name \in DeviceNames, sanitize \in BOOLEAN :
       \E d \in ResourceChoices(cls) :
          LET files == ResourceFiles(cls, CalibrationOf(cls, d[1], d[2], d[3], d[4][1], d[4][2]))
              r == get_device(cls, name, sanitize, files)
          IN /\ call' = [op |-> "get_device", cls |-> cls, name |-> name,
                         sanitize_device |-> sanitize]
             /\ doc' = IF InList("import_backend", r.trace)
                       THEN DocRead(cls, StrArg(name), files) ELSE NoDoc
             /\ trace' = r.trace
             /\ raised' = r.outcome.raised
             /\ returned' = r.outcome.device
             /\ backend' = NoBackend
    /\ accessed' = {}
    /\ pc' = "done"

\* A caller runs cls.import_backend directly: on a Path to a calibration file
\* (IBM, IBM open access) or on a device name (OQC).
ImportBackend ==
    /\ pc = "idle"
    /\ \E cls \in Providers, nq \in 1 .. MaxQubits, np \in 0 .. MaxQubits,
          conn \in ConnLists, style \in DocStyles :
          LET cal == CalibrationOf(cls, nq, np, conn, style[1], style[2])
              files == ResourceFiles(cls, cal)
              arg == IF cls = "OQCProvider" THEN StrArg("oqc_lucy") ELSE PathArg(cal)
              r == import_backend(cls, arg, files)
          IN /\ call' = [op |-> "import_backend", cls |-> cls, name |-> arg.name,
                         sanitize_device |-> FALSE]
             /\ doc' = DocRead(cls, arg, files)
             /\ trace' = <<>>
             /\ raised' = r.raised
             /\ returned' = r.device
             /\ backend' = NoBackend
    /\ accessed' = {}
    /\ pc' = "done"

\* A caller runs IBMProvider.import_qiskit_backend(backend).
ImportQiskitBackend ==
    /\ pc = "idle"
    /\ \E n \in 1 .. MaxTargetQubits, k \in 0 .. MaxInstructions, full \in BOOLEAN :
       \E listed \in Listings(n, k) :
          LET target == Target(n, IF full THEN n ELSE n - 1, listed)
              r == import_qiskit_backend(target)
          IN /\ call' = [op |-> "import_qiskit_backend", cls |-> "IBMProvider", name |-> "",
                         sanitize_device |-> FALSE]
             /\ backend' = target
             /\ raised' = r.raised
             /\ returned' = r.device
             /\ accessed' = import_target_accessed(target)
    /\ doc' = NoDoc
    /\ trace' = <<>>
    /\ pc' = "done"

\* A caller runs import_backend_properties(backend_properties): the
\* classmethod of BaseIBMProvider (ibm.py), or its copy in
\* IBMOpenAccessProvider (ibm_open_access.py).
ImportBackendProperties ==
    /\ pc = "idle"
    /\ \E cls \in {"IBMProvider", "IBMOpenAccessProvider"},
          n \in 1 .. MaxTargetQubits, k \in 0 .. MaxInstructions, full \in BOOLEAN :
       \E listed \in Listings(n, k) :
          LET backend_properties == BackendProperties(IF full THEN n ELSE n - 1, listed)
              r == import_backend_properties(backend_properties)
          IN /\ call' = [op |-> "import_backend_properties", cls |-> cls, name |-> "",
                         sanitize_device |-> FALSE]
             /\ backend' = backend_properties
             /\ raised' = r.raised
             /\ returned' = r.device
             /\ accessed' = import_backend_properties_accessed(backend_properties)
    /\ doc' = NoDoc
    /\ trace' = <<>>
    /\ pc' = "done"

\* A caller runs cls.get_available_basis_gates().
GetAvailableBasisGates ==
    /\ pc = "idle"
    /\ \E cls \in Providers :
       \E d \in ResourceChoices(cls) :
          LET files == ResourceFiles(cls, CalibrationOf(cls, d[1], d[2], d[3], d[4][1], d[4][2]))
              names == get_available_device_names(cls)
              r == get_available_basis_gates(cls, files)
          IN /\ call' = [op |-> "get_available_basis_gates", cls |-> cls, name |-> "",
                         sanitize_device |-> FALSE]
             /\ doc' = DocRead(cls, StrArg(names[1]), files)
             /\ raised' = r.raised
             /\ returned' = IF r.raised = "none" THEN [kind |-> "list", value |-> r.value]
                            ELSE NoDevice
    /\ trace' = <<>>
    /\ backend' = NoBackend
    /\ accessed' = {}
    /\ pc' = "done"

\* The caller is done with the result: nothing is kept between calls.
Release ==
    /\ pc = "done"
    /\ pc' = "idle"
    /\ call' = NoCall
    /\ doc' = NoDoc
    /\ trace' = <<>>
    /\ raised' = "none"
    /\ returned' = NoDevice
    /\ backend' = NoBackend
    /\ accessed' = {}

Next ==
    \/ GetDevice \/ ImportBackend \/ ImportQiskitBackend
    \/ ImportBackendProperties
    \/ GetAvailableBasisGates
    \/ Release

Spec == Init /\ [][Next]_vars


\* ------------------------------------------------------------- properties
\* C1: get_device(name) with a name that is not among the provider's
\* get_available_device_names() raises the unknown-device error (ValueError
\* "Device ... not found.") right after the name check: import_backend and
\* sanitize_device are not called, no file is read, no Device is returned.
C1_UnknownNameFailsBeforeImport ==
    (pc = "done" /\ call.op = "get_device" /\ ~InList(call.name, get_available_device_names(call.cls)))
        => /\ raised = "ValueError"
           /\ returned = NoDevice
           /\ trace = <<"get_available_device_names", "raise">>
           /\ doc = NoDoc

\* An unknown name was asked of every provider class.
C1_Witness ==
    /\ pc = "done" /\ call.op = "get_device"
    /\ call.cls = "OQCProvider"
    /\ call.name = "nonexistent_device"
    /\ raised = "ValueError"

\* C2: for every provider and every name among its device names,
\* get_device(name, sanitize_device) checks the name, calls import_backend
\* once, calls sanitize_device once exactly when the flag is set, and returns
\* the imported Device (unless the calibration file it read lacks a key).
C2_GetDeviceReturnsImportedDevice ==
    (/\ pc = "done" /\ call.op = "get_device"
     /\ InList(call.name, get_available_device_names(call.cls))
     /\ raised # "KeyError")
        => /\ raised = "none"
           /\ returned.kind = "Device"
           /\ returned.sanitized = call.sanitize_device
           /\ trace = IF call.sanitize_device
                      THEN <<"get_available_device_names", "import_backend",
                             "sanitize_device", "return">>
                      ELSE <<"get_available_device_names", "import_backend", "return">>

\* C3: in every Device an importer returns, the keys of
\* calibration.two_qubit_gate_fidelity and of two_qubit_gate_duration are
\* pairs of the Device's coupling_map.
C3_TwoQubitKeysInCouplingMap ==
    (pc = "done" /\ returned.kind = "Device")
        => /\ DOMAIN returned.calibration.two_qubit_gate_fidelity
                \subseteq Edges(returned.coupling_map)
           /\ DOMAIN returned.calibration.two_qubit_gate_duration
                \subseteq Edges(returned.coupling_map)

\* An IBM file import returned a Device with a one-directional edge.
C3_Witness ==
    /\ pc = "done" /\ call.op = "import_backend" /\ call.cls = "IBMProvider"
    /\ returned.kind = "Device"
    /\ <<0, 1>> \in DOMAIN returned.calibration.two_qubit_gate_duration
    /\ <<1, 0>> \notin Edges(returned.coupling_map)

\* C4: in every Device an importer returns, the qubits keyed in
\* calibration.t1, t2, readout_fidelity and readout_duration are in
\* range(num_qubits).
C4_QubitKeysInRange ==
    (pc = "done" /\ returned.kind = "Device")
        => /\ DOMAIN returned.calibration.t1 \subseteq Range(returned.num_qubits)
           /\ DOMAIN returned.calibration.t2 \subseteq Range(returned.num_qubits)
           /\ DOMAIN returned.calibration.readout_fidelity \subseteq Range(returned.num_qubits)
           /\ DOMAIN returned.calibration.readout_duration \subseteq Range(returned.num_qubits)

\* An IBM file import returned a Device of fewer qubits than `properties` holds.
C4_Witness ==
    /\ pc = "done" /\ call.op = "import_backend" /\ call.cls = "IBMProvider"
    /\ returned.kind = "Device"
    /\ returned.num_qubits = 1
    /\ Str(1) \in DOMAIN doc.properties
    /\ DOMAIN returned.calibration.t1 = {0}

\* C5: in every Device a file importer returns, every fidelity (readout,
\* single-qubit, two-qubit) is in [0, 1] and every duration and decoherence
\* time is >= 0.
C5_ValuesInRange ==
    LET NonNegative(x) == x.m >= 0
        AtMostOne(x) == IF x.e >= 0 THEN x.m * Pow10(x.e) <= 1 ELSE x.m <= Pow10(0 - x.e)
        Fidelity(x) == NonNegative(x) /\ AtMostOne(x)
        c == returned.calibration
    IN (/\ pc = "done" /\ call.op \in {"import_backend", "get_device"}
        /\ returned.kind = "Device")
        => /\ \A q \in DOMAIN c.t1 : NonNegative(c.t1[q])
           /\ \A q \in DOMAIN c.t2 : NonNegative(c.t2[q])
           /\ \A q \in DOMAIN c.readout_fidelity : Fidelity(c.readout_fidelity[q])
           /\ \A q \in DOMAIN c.readout_duration : NonNegative(c.readout_duration[q])
           /\ \A q \in DOMAIN c.single_qubit_gate_fidelity :
                \A g \in DOMAIN c.single_qubit_gate_fidelity[q] :
                    Fidelity(c.single_qubit_gate_fidelity[q][g])
           /\ \A q \in DOMAIN c.single_qubit_gate_duration :
                \A g \in DOMAIN c.single_qubit_gate_duration[q] :
                    NonNegative(c.single_qubit_gate_duration[q][g])
           /\ \A p \in DOMAIN c.two_qubit_gate_fidelity :
                \A g \in DOMAIN c.two_qubit_gate_fidelity[p] :
                    Fidelity(c.two_qubit_gate_fidelity[p][g])
           /\ \A p \in DOMAIN c.two_qubit_gate_duration :
                \A g \in DOMAIN c.two_qubit_gate_duration[p] :
                    NonNegative(c.two_qubit_gate_duration[p][g])

\* C6: in every Device either IBMOpenAccessProvider.import_backend (ibm.py,
\* ibm_open_access.py) returns, two_qubit_gate_duration[(q1, q2)] is
\* {"ecr": properties[q1].tECR["q1_q2"] * 1e-9} for every connectivity edge.
C6_OpenAccessDurationFromTECR ==
    (/\ pc = "done" /\ call.op = "import_backend"
     /\ call.cls \in {"IBMOpenAccessProvider_ibm", "IBMOpenAccessProvider"}
     /\ returned.kind = "Device")
        => \A p \in Edges(doc.connectivity) :
              LET block == doc.properties[Str(p[1])]
                  edge == EdgeKey(p[1], p[2])
              IN /\ edge \in DOMAIN block.tECR
                 /\ returned.calibration.two_qubit_gate_duration[p]
                        = [ecr |-> Scale(block.tECR[edge], -9)]

\* C7: in every Device IBMProvider.import_backend returns, for every
\* connectivity edge (c, t) the fidelity entry is exactly {"cx": 1 - eCX["c_t"]}
\* and the duration entry exactly {"cx": tCX["c_t"] * 1e-9}, both read from
\* the property block of c; eCX = 0.01 gives 0.99 and tCX = 300 gives 300e-9.
C7_IBMTwoQubitFromControlBlock ==
    (/\ pc = "done" /\ call.op = "import_backend" /\ call.cls = "IBMProvider"
     /\ returned.kind = "Device")
        => /\ DOMAIN returned.calibration.two_qubit_gate_fidelity = Edges(doc.connectivity)
           /\ DOMAIN returned.calibration.two_qubit_gate_duration = Edges(doc.connectivity)
           /\ \A p \in Edges(doc.connectivity) :
                 LET block == doc.properties[Str(p[1])]
                     edge == EdgeKey(p[1], p[2])
                     fidelity == returned.calibration.two_qubit_gate_fidelity[p]
                     duration == returned.calibration.two_qubit_gate_duration[p]
                 IN /\ fidelity = [cx |-> OneMinus(block.eCX[edge])]
                    /\ duration = [cx |-> Scale(block.tCX[edge], -9)]
                    /\ block.eCX[edge] = [m |-> 1, e |-> -2] => fidelity.cx = [m |-> 99, e |-> -2]
                    /\ block.tCX[edge] = [m |-> 3, e |-> 2] => duration.cx = [m |-> 3, e |-> -7]

\* An IBM import of an edge whose control and target blocks hold different
\* values under the same edge key.
C7_Witness ==
    /\ pc = "done" /\ call.op = "import_backend" /\ call.cls = "IBMProvider"
    /\ returned.kind = "Device"
    /\ <<0, 1>> \in DOMAIN returned.calibration.two_qubit_gate_fidelity
    /\ Str(1) \in DOMAIN doc.properties
    /\ EdgeKey(0, 1) \in DOMAIN doc.properties[Str(1)].eCX
    /\ doc.properties[Str(1)].eCX[EdgeKey(0, 1)] # doc.properties[Str(0)].eCX[EdgeKey(0, 1)]

\* C8: in every Device an IBM or IBM open access file import returns, for
\* every qubit q in range(num_qubits) single_qubit_gate_fidelity[q] has rz
\* exactly 1, and id, sx, x equal to 1 - eID, 1 - eSX, 1 - eX of that qubit.
C8_RzIsOne ==
    (/\ pc = "done" /\ call.op = "import_backend"
     /\ call.cls \in {"IBMProvider", "IBMOpenAccessProvider_ibm", "IBMOpenAccessProvider"}
     /\ returned.kind = "Device")
        => /\ DOMAIN returned.calibration.single_qubit_gate_fidelity = Range(doc.num_qubits)
           /\ \A q \in Range(doc.num_qubits) :
                 LET block == doc.properties[Str(q)]
                     gates == returned.calibration.single_qubit_gate_fidelity[q]
                 IN /\ DOMAIN gates = {"id", "rz", "sx", "x"}
                    /\ gates.rz = [m |-> 1, e |-> 0]
                    /\ gates.id = OneMinus(block.eID)
                    /\ gates.sx = OneMinus(block.eSX)
                    /\ gates.x = OneMinus(block.eX)

\* An open access import (ibm_open_access.py) of a qubit whose errors are
\* all non-zero and out of range.
C8_Witness ==
    /\ pc = "done" /\ call.op = "import_backend" /\ call.cls = "IBMOpenAccessProvider"
    /\ returned.kind = "Device"
    /\ returned.num_qubits = 2
    /\ doc.properties[Str(1)].eX = [m |-> 2, e |-> 0]
    /\ returned.calibration.single_qubit_gate_fidelity[1].rz = [m |-> 1, e |-> 0]

\* C9: in every Device the OQC import returns, for every qubit q in
\* range(num_qubits) single_qubit_gate_fidelity[q] has exactly the gates rz,
\* sx, x, each equal to fRB of q, and readout_fidelity[q] is fRO of q as it is.
C9_OQCSharedFidelity ==
    (/\ pc = "done" /\ call.op \in {"import_backend", "get_device"}
     /\ call.cls = "OQCProvider" /\ returned.kind = "Device")
        => /\ DOMAIN returned.calibration.single_qubit_gate_fidelity = Range(doc.num_qubits)
           /\ DOMAIN returned.calibration.readout_fidelity = Range(doc.num_qubits)
           /\ \A q \in Range(doc.num_qubits) :
                 LET block == doc.properties.one_qubit[Str(q)]
                     gates == returned.calibration.single_qubit_gate_fidelity[q]
                 IN /\ DOMAIN gates = {"rz", "sx", "x"}
                    /\ \A g \in DOMAIN gates : gates[g] = block.fRB
                    /\ returned.calibration.readout_fidelity[q] = block.fRO

\* An OQC import of two qubits with different fRB and fRO = 0.95.
C9_Witness ==
    /\ pc = "done" /\ call.op = "import_backend" /\ call.cls = "OQCProvider"
    /\ returned.kind = "Device"
    /\ returned.num_qubits = 2
    /\ returned.calibration.single_qubit_gate_fidelity[0].sx
          # returned.calibration.single_qubit_gate_fidelity[1].sx

\* C10: in every Device the OQC import returns, two_qubit_gate_duration,
\* single_qubit_gate_duration and readout_duration hold no entry, and
\* two_qubit_gate_fidelity holds exactly the entry {"ecr": fECR} for each
\* connectivity edge.
C10_OQCNoDurations ==
    (/\ pc = "done" /\ call.op \in {"import_backend", "get_device"}
     /\ call.cls = "OQCProvider" /\ returned.kind = "Device")
        => /\ DOMAIN returned.calibration.two_qubit_gate_duration = {}
           /\ DOMAIN returned.calibration.single_qubit_gate_duration = {}
           /\ DOMAIN returned.calibration.readout_duration = {}
           /\ DOMAIN returned.calibration.two_qubit_gate_fidelity = Edges(doc.connectivity)
           /\ \A p \in Edges(doc.connectivity) :
                 returned.calibration.two_qubit_gate_fidelity[p]
                    = [ecr |-> doc.properties.two_qubit[OQCEdgeKey(p[1], p[2])].fECR]

\* An OQC import of a connectivity list that names the same edge twice.
C10_Witness ==
    /\ pc = "done" /\ call.op = "import_backend" /\ call.cls = "OQCProvider"
    /\ returned.kind = "Device"
    /\ Len(returned.coupling_map) = 2
    /\ DOMAIN returned.calibration.two_qubit_gate_fidelity = {<<0, 1>>}

\* C11: for every provider, get_available_basis_gates() returns a list in
\* which no two gate sequences are equal, and which holds exactly the
\* basis_gates sequences of the devices get_available_devices() returns
\* (unless a calibration file it read lacks a key).
C11_BasisGatesDistinct ==
    (pc = "done" /\ call.op = "get_available_basis_gates" /\ raised # "KeyError")
        => /\ raised = "none"
           /\ returned.kind = "list"
           /\ \A i, j \in DOMAIN returned.value :
                 i # j => returned.value[i] # returned.value[j]
           /\ LET available ==
                      get_available_devices(call.cls, FALSE, ResourceFiles(call.cls, doc))
              IN /\ available.raised = "none"
                 /\ {returned.value[i] : i \in DOMAIN returned.value}
                       = {available.devices[i].basis_gates : i \in DOMAIN available.devices}

\* C12: after import_target (run by import_qiskit_backend) and after
\* import_backend_properties, no error or duration was read for a `reset` or
\* a `delay` operation, and no gate table of the calibration returned
\* (single-qubit, two-qubit; fidelity or duration) has an entry named reset
\* or delay.  The readout tables are keyed by qubit alone.
C12_ResetAndDelaySkipped ==
    (pc = "done" /\ call.op \in {"import_qiskit_backend", "import_backend_properties"})
        => /\ \A a \in accessed : a[1] \notin {"reset", "delay"}
           /\ returned.kind \in {"Device", "DeviceCalibration"}
                => LET c == returned.calibration
                   IN /\ \A q \in DOMAIN c.single_qubit_gate_fidelity :
                            DOMAIN c.single_qubit_gate_fidelity[q] \cap {"reset", "delay"} = {}
                      /\ \A q \in DOMAIN c.single_qubit_gate_duration :
                            DOMAIN c.single_qubit_gate_duration[q] \cap {"reset", "delay"} = {}
                      /\ \A e \in DOMAIN c.two_qubit_gate_fidelity :
                            DOMAIN c.two_qubit_gate_fidelity[e] \cap {"reset", "delay"} = {}
                      /\ \A e \in DOMAIN c.two_qubit_gate_duration :
                            DOMAIN c.two_qubit_gate_duration[e] \cap {"reset", "delay"} = {}

\* C13: in a live import (import_target, import_backend_properties), every
\* operation of the input other than reset and delay is recorded in a
\* calibration table (readout for measure, single-qubit, two-qubit), or the
\* import fails: an operation the importer has no table for, such as one on
\* three qubits, is not dropped from a calibration that is returned.
C13_UnmappedOperationFails ==
    LET operations ==
            IF call.op = "import_qiskit_backend"
            THEN {<<i.name, i.qargs>> : i \in backend.instructions}
            ELSE {<<backend.gates[i].gate, backend.gates[i].qubits>> : i \in DOMAIN backend.gates}
        c == returned.calibration
        Recorded(name, qubits) ==
            \/ /\ name = "measure"
               /\ qubits[1] \in DOMAIN c.readout_fidelity
               /\ qubits[1] \in DOMAIN c.readout_duration
            \/ /\ Len(qubits) = 1
               /\ qubits[1] \in DOMAIN c.single_qubit_gate_fidelity
               /\ name \in DOMAIN c.single_qubit_gate_fidelity[qubits[1]]
               /\ name \in DOMAIN c.single_qubit_gate_duration[qubits[1]]
            \/ /\ Len(qubits) = 2
               /\ qubits \in DOMAIN c.two_qubit_gate_fidelity
               /\ name \in DOMAIN c.two_qubit_gate_fidelity[qubits]
               /\ name \in DOMAIN c.two_qubit_gate_duration[qubits]
    IN (pc = "done" /\ call.op \in {"import_qiskit_backend", "import_backend_properties"})
        => \/ raised # "none"
           \/ \A o \in operations : o[1] \notin {"reset", "delay"} => Recorded(o[1], o[2])

\* C14: for every file importer, a document in which a qubit below
\* num_qubits has no block in `properties`, or a connectivity edge has no
\* entry under the error or the duration key of its control qubit (OQC: under
\* two_qubit), makes import_backend raise the malformed-calibration error
\* (KeyError in the code) and return no Device.
C14_MalformedDocumentFails ==
    LET blocks == IF doc.schema = "oqc" THEN doc.properties.one_qubit ELSE doc.properties
        EdgeMissing(p) ==
            CASE doc.schema = "oqc" ->
                   OQCEdgeKey(p[1], p[2]) \notin DOMAIN doc.properties.two_qubit
              [] doc.schema = "ibm" ->
                   \/ Str(p[1]) \notin DOMAIN blocks
                   \/ EdgeKey(p[1], p[2]) \notin DOMAIN blocks[Str(p[1])].eCX
                   \/ EdgeKey(p[1], p[2]) \notin DOMAIN blocks[Str(p[1])].tCX
              [] OTHER ->
                   \/ Str(p[1]) \notin DOMAIN blocks
                   \/ EdgeKey(p[1], p[2]) \notin DOMAIN blocks[Str(p[1])].eECR
                   \/ EdgeKey(p[1], p[2]) \notin DOMAIN blocks[Str(p[1])].tECR
        Malformed ==
            \/ \E q \in Range(doc.num_qubits) : Str(q) \notin DOMAIN blocks
            \/ \E p \in Edges(doc.connectivity) : EdgeMissing(p)
    IN (/\ pc = "done" /\ call.op \in {"import_backend", "get_device"}
        /\ doc # NoDoc)
        => (Malformed => raised = "KeyError" /\ returned = NoDevice)

=============================================================================
